---- MODULE Spec2Model ----
(***************************************************************************)
(* jsonwrap: reflection-driven OpenAPI schema synthesis for foreign types. *)
(*                                                                         *)
(* The model follows src/jsonwrap/src/lib.rs.  A traced serde registry is  *)
(* a map from container names to container formats; the poem registry is   *)
(* a map from schema names to MetaSchema values.  Every Rust Option is a   *)
(* sequence of length 0 (None) or 1 (Some).  Every converter returns the   *)
(* record [out, reg, st]: its value, the poem registry it leaves, and how  *)
(* the call ended: "ok", "panic" (create_schema's type-name check) or      *)
(* "overflow" (the recursion exceeded the stack: it never returns).        *)
(***************************************************************************)
EXTENDS Integers, Sequences, FiniteSets, TLC

VARIABLES poem_reg, registered, last, outcome

vars == <<poem_reg, registered, last, outcome>>

(***************************************************************************)
(* Bounds of the model.                                                    *)
(***************************************************************************)
\* Nested container conversions one registration may stack up before the
\* run counts as never returning.  The deepest registration of the type
\* universe below that returns stacks 4 of them (Tree).
MaxDepth == 5
\* Distinct foreign types one service registers.
MaxTypes == 2
\* Levels of Option inside the wrapper: Foreign<T>, Foreign<Option<T>>, ...
MaxOpt == 2

(***************************************************************************)
(* The type universe: serde_reflection formats of the traced types.        *)
(***************************************************************************)
F(k) == [k |-> k]
FOption(f) == [k |-> "Option", inner |-> f]
FSeq(f) == [k |-> "Seq", inner |-> f]
FMap(key, value) == [k |-> "Map", key |-> key, value |-> value]
FTuple(fs) == [k |-> "Tuple", formats |-> fs]
FTypeName(n) == [k |-> "TypeName", name |-> n]
Named(n, v) == [name |-> n, value |-> v]

CStruct(fields) == [k |-> "Struct", fields |-> fields]
CNewTypeStruct(f) == [k |-> "NewTypeStruct", inner |-> f]
CTupleStruct(fs) == [k |-> "TupleStruct", formats |-> fs]
CEnum(variants) == [k |-> "Enum", variants |-> variants]
CUnitStruct == [k |-> "UnitStruct"]

VUnit == [k |-> "Unit"]
VNewType(f) == [k |-> "NewType", inner |-> f]
VTuple(fs) == [k |-> "Tuple", formats |-> fs]
VStruct(fields) == [k |-> "Struct", fields |-> fields]

\* Names of the containers a trace can hold.
ContainerNames ==
  {"Leaf", "Pair", "W1", "W2", "Id", "Event", "Point", "Unit0", "Node",
   "LoopA", "LoopB", "Holder", "Tree", "Branch"}

\* The container format serde_reflection records under each name.
Decl(n) ==
  CASE n = "Leaf" ->
         CStruct(<<Named("text", F("Str")), Named("n", F("I32")),
                   Named("flag", F("Bool"))>>)
    [] n = "Pair" ->
         CStruct(<<Named("first", FTypeName("Leaf")),
                   Named("rest", FSeq(FTypeName("Leaf"))),
                   Named("tags", FMap(F("Str"), F("U8"))),
                   Named("raw", F("Bytes"))>>)
    [] n = "W1" -> CNewTypeStruct(FTypeName("Leaf"))
    [] n = "W2" -> CNewTypeStruct(FTypeName("W1"))
    [] n = "Id" -> CNewTypeStruct(F("Str"))
    [] n = "Event" ->
         CEnum(<<Named("A", VUnit), Named("B", VUnit),
                 Named("C", VNewType(FTypeName("Leaf"))),
                 Named("D", VTuple(<<F("I64"), F("Bool")>>)),
                 Named("E", VStruct(<<Named("x", F("Char"))>>))>>)
    [] n = "Point" -> CTupleStruct(<<F("F32"), F("F64")>>)
    [] n = "Unit0" -> CUnitStruct
    [] n = "Node" ->
         CStruct(<<Named("value", F("U64")),
                   Named("next", FOption(FTypeName("Node")))>>)
    [] n = "LoopA" -> CNewTypeStruct(FOption(FTypeName("LoopB")))
    [] n = "LoopB" -> CNewTypeStruct(FOption(FTypeName("LoopA")))
    [] n = "Holder" -> CStruct(<<Named("inner", FTypeName("LoopA"))>>)
    [] n = "Tree" -> CNewTypeStruct(FTypeName("Branch"))
    [] n = "Branch" ->
         CStruct(<<Named("left", FOption(FTypeName("Tree"))),
                   Named("right", FOption(FTypeName("Tree")))>>)

\* The foreign types T a service wraps, and std::any::type_name::<T>() of
\* each, split at "::".  Distinct types have distinct bare names.
Types ==
  {"Leaf", "Pair", "W1", "W2", "Id", "Event", "Point", "Unit0", "Node",
   "LoopA", "Holder", "Tree", "String", "VecLeaf", "Opaque"}

FullName(T) ==
  CASE T = "String" -> <<"alloc", "string", "String">>
    [] T = "VecLeaf" -> <<"alloc", "vec", "Vec<foreign", "Leaf>">>
    [] OTHER -> <<"foreign", T>>

\* The format of T itself, as the tracer meets it.
RootFormat(T) ==
  CASE T = "String" -> F("Str")
    [] T = "VecLeaf" -> FSeq(FTypeName("Leaf"))
    [] OTHER -> FTypeName(T)

\* Types whose shape serde_reflection cannot trace.
Untraceable == {"Opaque"}

\* Every name a schema can be bound under.
SchemaNames == ContainerNames \cup {"String", "Leaf>", "Opaque"}

(***************************************************************************)
(* poem_openapi's MetaSchema and MetaSchemaRef.                            *)
(***************************************************************************)
\* MetaSchema::ANY: every field empty.
ANY ==
  [ty |-> "", properties |-> <<>>, items |-> <<>>,
   additional_properties |-> <<>>, all_of |-> <<>>, any_of |-> <<>>,
   nullable |-> FALSE, title |-> <<>>, rust_typename |-> <<>>]

Ty(t) == [ANY EXCEPT !.ty = t]
Inline(schema) == [r |-> "Inline", schema |-> schema]
Reference(n) == [r |-> "Reference", name |-> n]

Res(out, reg, st) == [out |-> out, reg |-> reg, st |-> st]

IntFormats ==
  {"I8", "I16", "I32", "I64", "I128", "U8", "U16", "U32", "U64", "U128"}

\* std::any::type_name of create_schema's type parameter: () in
\* register_type, Foreign<T> in Foreign<T>::register.
UnitTypeName == <<"()">>
ForeignTypeName(T) == <<"jsonwrap", "Foreign">> \o FullName(T)

\* SerdeRegistry::get.
Get(serde_reg, name) ==
  IF name \in DOMAIN serde_reg THEN <<serde_reg[name]>> ELSE <<>>

\* The closure Foreign<T>::register hands to create_schema when the trace
\* failed, and the one that converts a container.
ObjectClosure == [c |-> "object"]
ContainerClosure(format) == [c |-> "container", format |-> format]

\* How a caller goes on after a nested call: a call that did not return
\* ends the caller the same way, a call that returned hands on its value
\* and the registry it left.
AndThen(r, out) == IF r.st /= "ok" THEN r ELSE Res(out, r.reg, "ok")

ArrayOf(items) ==
  AndThen(items, Inline([ANY EXCEPT !.ty = "array", !.items = <<items.out>>]))
MapOf(additional) ==
  AndThen(additional,
          Inline([ANY EXCEPT !.ty = "object",
                             !.additional_properties = <<additional.out>>]))
TupleOf(items) ==
  AndThen(items, Inline([ANY EXCEPT !.ty = "array", !.all_of = items.out]))
ObjectOf(props) ==
  AndThen(props, Inline([ANY EXCEPT !.ty = "object",
                                    !.properties = props.out]))
ReferenceTo(n, done) == AndThen(done, Reference(n))
Prepend(x, tail) == AndThen(tail, <<x>> \o tail.out)
\* Mutant: the properties come out in reverse field order.
WithNames_reversed(fields, schemas) ==
  AndThen(schemas,
          [i \in 1..Len(fields) |->
             <<fields[Len(fields) + 1 - i].name,
               schemas.out[Len(fields) + 1 - i]>>])

\* (leak_str(&field.name), schema) for each field, in order.
WithNames(fields, schemas) ==
  AndThen(schemas,
          [i \in 1..Len(fields) |-> <<fields[i].name, schemas.out[i]>>])
FieldFormats(fields) == [i \in 1..Len(fields) |-> fields[i].value]
\* One single-key object for a variant of an enum.
VariantObject(n, schema) ==
  Inline([ANY EXCEPT !.ty = "object", !.properties = <<<<n, schema>>>>])
\* The schema a closure returned, stamped with the type name and bound in
\* place of the placeholder.
Bound(T, name, m) ==
  IF m.st /= "ok" THEN Res(<<>>, m.reg, m.st)
  ELSE Res(<<>>,
           [m.reg EXCEPT ![name] = <<[m.out EXCEPT !.rust_typename = <<T>>]>>],
           "ok")

RECURSIVE format_to_schema(_, _, _, _)
RECURSIVE formats_to_schemas(_, _, _, _)
RECURSIVE formats_after(_, _, _, _)
RECURSIVE variant_to_schema(_, _, _, _)
RECURSIVE variants_to_any_of(_, _, _, _)
RECURSIVE variants_after(_, _, _, _)
RECURSIVE container_to_schema(_, _, _, _)
RECURSIVE newtype_after(_, _, _)
RECURSIVE create_schema(_, _, _, _, _, _)
RECURSIVE register_type(_, _, _, _)

\* Registry::create_schema::<T, _>(name, f) of poem_openapi: a bound name is
\* left alone (and the call panics when another Rust type bound it); an
\* unbound name is bound to a placeholder, f runs, and its schema, stamped
\* with T's type name, replaces the placeholder.
create_schema(T, name, f, serde_reg, reg, fuel) ==
  IF reg[name] /= <<>>
  THEN IF /\ reg[name][1].rust_typename /= <<>>
          /\ reg[name][1].rust_typename[1] /= T
       THEN Res(<<>>, reg, "panic")
       ELSE Res(<<>>, reg, "ok")
  ELSE IF f.c = "object"
  THEN Bound(T, name,
             Res(Ty("object"), [reg EXCEPT ![name] = <<Ty("fake")>>], "ok"))
  ELSE Bound(T, name,
             container_to_schema(f.format, serde_reg,
                                 [reg EXCEPT ![name] = <<Ty("fake")>>], fuel))

\* Mutant: the named container is converted and bound without asking
\* create_schema whether the name is bound.
register_type_rebinding(name, serde_reg, reg, fuel) ==
  IF Get(serde_reg, name) /= <<>>
  THEN Bound(UnitTypeName, name,
             container_to_schema(Get(serde_reg, name)[1], serde_reg, reg,
                                 fuel))
  ELSE Res(<<>>, reg, "ok")

register_type(name, serde_reg, reg, fuel) ==
  IF Get(serde_reg, name) /= <<>>
  THEN create_schema(UnitTypeName, name,
                     ContainerClosure(Get(serde_reg, name)[1]),
                     serde_reg, reg, fuel)
  ELSE Res(<<>>, reg, "ok")

format_to_schema(format, serde_reg, reg, fuel) ==
  CASE format.k = "Str" -> Res(Inline(Ty("string")), reg, "ok")
    [] format.k \in IntFormats -> Res(Inline(Ty("integer")), reg, "ok")
    [] format.k \in {"F32", "F64"} -> Res(Inline(Ty("number")), reg, "ok")
    [] format.k = "Bool" -> Res(Inline(Ty("boolean")), reg, "ok")
    [] format.k = "Char" -> Res(Inline(Ty("string")), reg, "ok")
    [] format.k = "Unit" -> Res(Inline(Ty("null")), reg, "ok")
    [] format.k = "Option" ->
         format_to_schema(format.inner, serde_reg, reg, fuel)
    [] format.k = "Seq" ->
         ArrayOf(format_to_schema(format.inner, serde_reg, reg, fuel))
    [] format.k = "Map" ->
         MapOf(format_to_schema(format.value, serde_reg, reg, fuel))
    [] format.k = "Tuple" ->
         TupleOf(formats_to_schemas(format.formats, serde_reg, reg, fuel))
    [] format.k = "TypeName" ->
         ReferenceTo(format.name,
                     register_type(format.name, serde_reg, reg, fuel))
    [] OTHER -> Res(Inline(Ty("object")), reg, "ok")

\* formats.iter().map(|f| format_to_schema(f, ..)).collect(): left to right,
\* each call seeing the registry the one before it left.
formats_to_schemas(formats, serde_reg, reg, fuel) ==
  IF formats = <<>> THEN Res(<<>>, reg, "ok")
  ELSE formats_after(format_to_schema(Head(formats), serde_reg, reg, fuel),
                     Tail(formats), serde_reg, fuel)

formats_after(head, rest, serde_reg, fuel) ==
  IF head.st /= "ok" THEN head
  ELSE Prepend(head.out, formats_to_schemas(rest, serde_reg, head.reg, fuel))

variant_to_schema(variant_format, serde_reg, reg, fuel) ==
  CASE variant_format.k = "Unit" -> Res(Inline(Ty("null")), reg, "ok")
    [] variant_format.k = "NewType" ->
         format_to_schema(variant_format.inner, serde_reg, reg, fuel)
    [] variant_format.k = "Tuple" ->
         TupleOf(formats_to_schemas(variant_format.formats, serde_reg, reg,
                                    fuel))
    [] variant_format.k = "Struct" ->
         ObjectOf(WithNames(variant_format.fields,
                            formats_to_schemas(
                              FieldFormats(variant_format.fields), serde_reg,
                              reg, fuel)))
    [] OTHER -> Res(Inline(Ty("object")), reg, "ok")

\* The Enum arm's variants.iter().map(..): one single-key object a variant.
variants_to_any_of(variants, serde_reg, reg, fuel) ==
  IF variants = <<>> THEN Res(<<>>, reg, "ok")
  ELSE variants_after(variant_to_schema(Head(variants).value, serde_reg, reg,
                                        fuel),
                      variants, serde_reg, fuel)

variants_after(head, variants, serde_reg, fuel) ==
  IF head.st /= "ok" THEN head
  ELSE Prepend(VariantObject(Head(variants).name, head.out),
               variants_to_any_of(Tail(variants), serde_reg, head.reg, fuel))

\* A container conversion is a stack frame: with none left the recursion
\* has outrun the stack.
container_to_schema(format, serde_reg, reg, fuel) ==
  IF fuel = 0 THEN Res(ANY, reg, "overflow")
  ELSE
  CASE format.k = "Struct" ->
         (LET props == WithNames(format.fields,
                                 formats_to_schemas(FieldFormats(format.fields),
                                                    serde_reg, reg, fuel - 1))
          IN  AndThen(props, [ANY EXCEPT !.ty = "object",
                                         !.properties = props.out]))
    [] format.k = "NewTypeStruct" ->
         newtype_after(format_to_schema(format.inner, serde_reg, reg,
                                        fuel - 1),
                       serde_reg, fuel - 1)
    [] format.k = "TupleStruct" ->
         (LET items == formats_to_schemas(format.formats, serde_reg, reg,
                                          fuel - 1)
          IN  AndThen(items, [ANY EXCEPT !.ty = "array",
                                         !.all_of = items.out]))
    [] format.k = "Enum" ->
         (LET alts == variants_to_any_of(format.variants, serde_reg, reg,
                                         fuel - 1)
          IN  AndThen(alts, [ANY EXCEPT !.ty = "object",
                                        !.any_of = alts.out]))
    [] format.k = "UnitStruct" -> Res(Ty("null"), reg, "ok")

\* Mutant: a referenced payload is not resolved to its container.
newtype_after_shallow(inner, serde_reg, fuel) ==
  IF inner.st /= "ok" THEN inner
  ELSE IF inner.out.r = "Inline" THEN Res(inner.out.schema, inner.reg, "ok")
  ELSE Res(Ty("object"), inner.reg, "ok")

\* Mutant: a referenced payload whose name is still being resolved (bound
\* to the placeholder) is not converted again.
newtype_after_guarded(inner, serde_reg, fuel) ==
  IF inner.st /= "ok" THEN inner
  ELSE IF inner.out.r = "Inline" THEN Res(inner.out.schema, inner.reg, "ok")
  ELSE IF /\ Get(serde_reg, inner.out.name) /= <<>>
          /\ inner.reg[inner.out.name] /= <<Ty("fake")>>
  THEN container_to_schema(Get(serde_reg, inner.out.name)[1], serde_reg,
                           inner.reg, fuel)
  ELSE Res(Ty("object"), inner.reg, "ok")

\* The NewTypeStruct arm once the payload is converted: an inline schema is
\* the wrapper's schema, a reference is resolved to its container, which is
\* converted in the wrapper's place.
newtype_after(inner, serde_reg, fuel) ==
  IF inner.st /= "ok" THEN inner
  ELSE IF inner.out.r = "Inline" THEN Res(inner.out.schema, inner.reg, "ok")
  ELSE IF Get(serde_reg, inner.out.name) /= <<>>
  THEN container_to_schema(Get(serde_reg, inner.out.name)[1], serde_reg,
                           inner.reg, fuel)
  ELSE Res(Ty("object"), inner.reg, "ok")

(***************************************************************************)
(* Tracing and naming.                                                     *)
(***************************************************************************)
RECURSIVE FormatNames(_)
RECURSIVE FormatsNames(_)
\* The container names a format mentions.
FormatNames(f) ==
  CASE f.k = "TypeName" -> {f.name}
    [] f.k \in {"Option", "Seq"} -> FormatNames(f.inner)
    [] f.k = "Map" -> FormatNames(f.key) \cup FormatNames(f.value)
    [] f.k = "Tuple" -> FormatsNames(f.formats)
    [] OTHER -> {}

FormatsNames(fs) ==
  IF fs = <<>> THEN {} ELSE FormatNames(Head(fs)) \cup FormatsNames(Tail(fs))

VariantNames(v) ==
  CASE v.k = "NewType" -> FormatNames(v.inner)
    [] v.k = "Tuple" -> FormatsNames(v.formats)
    [] v.k = "Struct" -> FormatsNames(FieldFormats(v.fields))
    [] OTHER -> {}

\* The container names a container's format mentions.
ContainerRefs(c) ==
  CASE c.k = "Struct" -> FormatsNames(FieldFormats(c.fields))
    [] c.k = "NewTypeStruct" -> FormatNames(c.inner)
    [] c.k = "TupleStruct" -> FormatsNames(c.formats)
    [] c.k = "Enum" ->
         UNION {VariantNames(c.variants[i].value) : i \in 1..Len(c.variants)}
    [] OTHER -> {}

RECURSIVE Reach(_)
\* Every container the tracer visits starting from the names in S.
Reach(S) ==
  LET more == S \cup UNION {ContainerRefs(Decl(n)) : n \in S}
  IN  IF more = S THEN S ELSE Reach(more)

\* trace_type::<T>(): nothing when the trace fails, else the registry of
\* the containers reachable from T.
trace_type(T) ==
  IF T \in Untraceable THEN <<>>
  ELSE <<[n \in Reach(FormatNames(RootFormat(T))) |-> Decl(n)]>>

\* type_name::<T>(): the text after the last "::" of the full type name.
type_name(T) == FullName(T)[Len(FullName(T))]

\* A wrapper type: Foreign<T> (opt = 0), Foreign<Option<T>> (opt = 1), ...
Wrapper(T, opt) == [base |-> T, opt |-> opt]
Wrappers == {Wrapper(T, opt) : T \in Types, opt \in 0..MaxOpt}
Unwrapped(w) == [w EXCEPT !.opt = @ - 1]

RECURSIVE Innermost(_, _)
Innermost(serde_reg, n) ==
  IF /\ Get(serde_reg, n) /= <<>>
     /\ Get(serde_reg, n)[1].k = "NewTypeStruct"
     /\ Get(serde_reg, n)[1].inner.k = "TypeName"
  THEN Innermost(serde_reg, Get(serde_reg, n)[1].inner.name)
  ELSE n

\* Mutant: the unwrapping goes through every layer of wrapping.
InnerName_deep(T) ==
  IF trace_type(T) = <<>> THEN <<>>
  ELSE IF Innermost(trace_type(T)[1], type_name(T)) = type_name(T) THEN <<>>
  ELSE <<Innermost(trace_type(T)[1], type_name(T))>>

\* The name of the payload when T traces as a single-field wrapper around
\* a named type: the test name, schema_ref and register share.
InnerName(T) ==
  LET name == type_name(T)
      traced == trace_type(T)
      found == IF traced = <<>> THEN <<>> ELSE Get(traced[1], name)
  IN  IF /\ found /= <<>>
         /\ found[1].k = "NewTypeStruct"
         /\ found[1].inner.k = "TypeName"
      THEN <<found[1].inner.name>>
      ELSE <<>>

\* <Foreign<T> as Type>::name.
Foreign_name(T) ==
  IF InnerName(T) /= <<>> THEN InnerName(T)[1] ELSE type_name(T)

\* <Foreign<T> as Type>::schema_ref.
Foreign_schema_ref(T) ==
  IF InnerName(T) /= <<>> THEN Reference(InnerName(T)[1])
  ELSE Reference(type_name(T))

\* Mutant: the schema is bound over whatever the name held.
Foreign_register_overwrite(T, reg, fuel) ==
  LET name == type_name(T)
      traced == trace_type(T)
  IN  IF traced = <<>>
      THEN Bound(ForeignTypeName(T), name, Res(Ty("object"), reg, "ok"))
      ELSE LET serde_reg == traced[1]
               found == Get(serde_reg, name)
           IN  IF found = <<>> THEN Res(<<>>, reg, "ok")
               ELSE LET format == found[1]
                        schema_name ==
                          IF /\ format.k = "NewTypeStruct"
                             /\ format.inner.k = "TypeName"
                          THEN format.inner.name
                          ELSE name
                    IN  Bound(ForeignTypeName(T), schema_name,
                              container_to_schema(format, serde_reg, reg,
                                                  fuel))

\* Mutant: a failed trace registers nothing.
Foreign_register_no_fallback(T, reg, fuel) ==
  LET name == type_name(T)
      traced == trace_type(T)
  IN  IF traced = <<>> THEN Res(<<>>, reg, "ok")
      ELSE LET serde_reg == traced[1]
               found == Get(serde_reg, name)
           IN  IF found = <<>> THEN Res(<<>>, reg, "ok")
               ELSE LET format == found[1]
                        schema_name ==
                          IF /\ format.k = "NewTypeStruct"
                             /\ format.inner.k = "TypeName"
                          THEN format.inner.name
                          ELSE name
                    IN  create_schema(ForeignTypeName(T), schema_name,
                                      ContainerClosure(format), serde_reg,
                                      reg, fuel)

\* <Foreign<T> as Type>::register.
Foreign_register(T, reg, fuel) ==
  LET name == type_name(T)
      traced == trace_type(T)
  IN  IF traced = <<>>
      THEN create_schema(ForeignTypeName(T), name, ObjectClosure, <<>>, reg,
                         fuel)
      ELSE LET serde_reg == traced[1]
               found == Get(serde_reg, name)
           IN  IF found = <<>> THEN Res(<<>>, reg, "ok")
               ELSE LET format == found[1]
                        schema_name ==
                          IF /\ format.k = "NewTypeStruct"
                             /\ format.inner.k = "TypeName"
                          THEN format.inner.name
                          ELSE name
                    IN  create_schema(ForeignTypeName(T), schema_name,
                                      ContainerClosure(format), serde_reg,
                                      reg, fuel)

\* Mutant: the inline fragment built around a Reference is not marked
\* nullable.
Nullable_unmarked(base_ref) ==
  IF base_ref.r = "Reference"
  THEN Inline([ANY EXCEPT !.title = <<base_ref.name>>,
                          !.all_of = <<Reference(base_ref.name)>>])
  ELSE Inline([base_ref.schema EXCEPT !.nullable = TRUE])

\* The Optionality Adapter of <Foreign<Option<T>> as Type>::schema_ref.
Nullable(base_ref) ==
  IF base_ref.r = "Reference"
  THEN Inline([ANY EXCEPT !.title = <<base_ref.name>>,
                          !.nullable = TRUE,
                          !.all_of = <<Reference(base_ref.name)>>])
  ELSE Inline([base_ref.schema EXCEPT !.nullable = TRUE])

RECURSIVE name(_)
RECURSIVE schema_ref(_)
RECURSIVE register(_, _, _)
\* Type::name, Type::schema_ref and Type::register of a wrapper type: the
\* impl for Foreign<Option<T>> when the payload is an Option, else the
\* default impl.
name(w) == IF w.opt > 0 THEN name(Unwrapped(w)) ELSE Foreign_name(w.base)

schema_ref(w) ==
  IF w.opt > 0 THEN Nullable(schema_ref(Unwrapped(w)))
  ELSE Foreign_schema_ref(w.base)

register(w, reg, fuel) ==
  IF w.opt > 0 THEN register(Unwrapped(w), reg, fuel)
  ELSE Foreign_register(w.base, reg, fuel)

(***************************************************************************)
(* Serialization.                                                          *)
(***************************************************************************)
JNull == [j |-> "null"]
JString(s) == [j |-> "string", s |-> s]
JNumber(n) == [j |-> "number", n |-> n]
JObject(members) == [j |-> "object", members |-> members]

RStr(s) == [v |-> "str", s |-> s]
RInt(n) == [v |-> "int", n |-> n]
RNone == [v |-> "none"]
RSome(x) == [v |-> "some", inner |-> x]
RStruct(fields) == [v |-> "struct", fields |-> fields]
RMap(entries) == [v |-> "map", entries |-> entries]

\* Payload values a handler wraps: the demonstration's ForeignType, scalars,
\* optional payloads, and maps, one of them keyed by a non-string.
Payloads ==
  {RStruct(<<<<"text", RStr("hello")>>>>),
   RStruct(<<<<"text", RStr("hi")>>, <<"next", RNone>>>>),
   RStr("hello"), RStr(""), RInt(7), RInt(0), RNone, RSome(RInt(7)),
   RSome(RNone),
   RMap(<<<<RStr("k"), RInt(1)>>>>),
   RMap(<<<<RNone, RInt(1)>>>>),
   RStruct(<<<<"bad", RMap(<<<<RNone, RInt(1)>>>>)>>>>)}

RECURSIVE to_value(_)
RECURSIVE members_to_value(_, _)
\* serde_json::to_value(v).ok(): the JSON value, or nothing when serde_json
\* refuses (a map key that is no string).
to_value(v) ==
  CASE v.v = "str" -> <<JString(v.s)>>
    [] v.v = "int" -> <<JNumber(v.n)>>
    [] v.v = "none" -> <<JNull>>
    [] v.v = "some" -> to_value(v.inner)
    [] v.v = "struct" -> members_to_value(v.fields, FALSE)
    [] v.v = "map" -> members_to_value(v.entries, TRUE)

members_to_value(entries, keyed) ==
  IF entries = <<>> THEN <<JObject(<<>>)>>
  ELSE LET key == Head(entries)[1]
           value == to_value(Head(entries)[2])
           rest == members_to_value(Tail(entries), keyed)
       IN  IF keyed /\ key.v /= "str" THEN <<>>
           ELSE IF value = <<>> \/ rest = <<>> THEN <<>>
           ELSE <<JObject(<<<<IF keyed THEN key.s ELSE key, value[1]>>>>
                          \o rest[1].members)>>

\* <Foreign<T> as ToJSON>::to_json: self.0 is the payload.
Foreign_to_json(payload) == to_value(payload)

\* <Foreign<Option<T>> as ToJSON>::to_json: self.0 is an Option.
ForeignOption_to_json(held) ==
  IF held = <<>> THEN <<>> ELSE to_value(held[1])

(***************************************************************************)
(* The service: the documentation framework asks wrapper types for their   *)
(* name, schema reference and registration; handlers serialize values.     *)
(***************************************************************************)
NoCall == [op |-> "none"]
EmptyRegistry == [n \in SchemaNames |-> <<>>]

Init ==
  /\ poem_reg = EmptyRegistry
  /\ registered = {}
  /\ last = NoCall
  /\ outcome = "running"

\* W::register(&mut registry) during bootstrap, W either Foreign<T> or
\* Foreign<Option<T>>.  A panic or a stack overflow ends the process.
Register(w) ==
  /\ outcome = "running"
  /\ w.base \in registered \/ Cardinality(registered) < MaxTypes
  /\ LET r == register(w, poem_reg, MaxDepth)
     IN  /\ poem_reg' = r.reg
         /\ outcome' = IF r.st = "ok" THEN "running" ELSE r.st
         /\ registered' = IF r.st = "ok" THEN registered \cup {w.base}
                          ELSE registered
         /\ last' = [op |-> "register", w |-> w,
                     again |-> w.base \in registered, st |-> r.st]

\* W::name().
Name(w) ==
  /\ outcome = "running"
  /\ last' = [op |-> "name", w |-> w, result |-> name(w)]
  /\ UNCHANGED <<poem_reg, registered, outcome>>

\* W::schema_ref().
SchemaRef(w) ==
  /\ outcome = "running"
  /\ last' = [op |-> "schema_ref", w |-> w, result |-> schema_ref(w)]
  /\ UNCHANGED <<poem_reg, registered, outcome>>

\* Foreign(payload).to_json() in a handler.
ToJson(payload) ==
  /\ outcome = "running"
  /\ last' = [op |-> "to_json", optional |-> FALSE, held |-> <<payload>>,
              result |-> Foreign_to_json(payload)]
  /\ UNCHANGED <<poem_reg, registered, outcome>>

\* Foreign(held).to_json() in a handler, held an Option: Some(payload) or
\* None.
ToJsonOption(held) ==
  /\ outcome = "running"
  /\ last' = [op |-> "to_json", optional |-> TRUE, held |-> held,
              result |-> ForeignOption_to_json(held)]
  /\ UNCHANGED <<poem_reg, registered, outcome>>

\* Schema bootstrap: the framework registers the types the API mentions.
Bootstrap ==
  \E T \in Types, opt \in 0..1 : Register(Wrapper(T, opt))

\* The pure entry points: they read no registry and leave none changed.
Query ==
  \/ \E w \in Wrappers : Name(w)
  \/ \E w \in Wrappers : SchemaRef(w)
  \/ \E payload \in Payloads : ToJson(payload)
  \/ \E held \in {<<>>} \cup {<<p>> : p \in Payloads} : ToJsonOption(held)

Next == Bootstrap \/ Query

Spec == Init /\ [][Next]_vars

\* Registration alone, and the pure entry points alone: each claim is
\* checked where its operations live.
SpecRegister == Init /\ [][Bootstrap]_vars
SpecQuery == Init /\ [][Query]_vars

(***************************************************************************)
(* Vocabulary of the properties.                                           *)
(***************************************************************************)
IsBound(n) == poem_reg[n] /= <<>>

\* A schema without the stamp create_schema puts on it.
Unstamped(schema) == [schema EXCEPT !.rust_typename = <<>>]

\* T names a container of its own trace, or T does not trace at all: the
\* two cases in which Foreign<T>::register reaches create_schema.
HasOwnContainer(T) ==
  /\ T \notin Untraceable
  /\ Get(trace_type(T)[1], type_name(T)) /= <<>>

\* T is declared as a single-field wrapper whose payload is a named type.
IsWrapperOfNamed(T) ==
  /\ T \in ContainerNames
  /\ Decl(T).k = "NewTypeStruct"
  /\ Decl(T).inner.k = "TypeName"

PayloadOf(T) == Decl(T).inner.name

RECURSIVE StripOptions(_)
StripOptions(f) == IF f.k = "Option" THEN StripOptions(f.inner) ELSE f

\* n is a single-field wrapper whose payload converts to a Reference: the
\* containers the NewTypeStruct arm replaces by their payload's container.
IsInlined(n) ==
  /\ n \in ContainerNames
  /\ Decl(n).k = "NewTypeStruct"
  /\ StripOptions(Decl(n).inner).k = "TypeName"

RECURSIVE WrapperChainLoops(_, _)
\* Following payloads from n never leaves the single-field wrappers.
WrapperChainLoops(n, seen) ==
  IF ~IsInlined(n) THEN FALSE
  ELSE IF n \in seen THEN TRUE
  ELSE WrapperChainLoops(StripOptions(Decl(n).inner).name, seen \cup {n})

\* The named-reference graph of T's trace holds a cycle.
HasCycle(T) ==
  /\ HasOwnContainer(T)
  /\ \E n \in Reach({type_name(T)}) : n \in Reach(ContainerRefs(Decl(n)))

\* A cycle made of single-field wrappers alone is reachable from T.
HasWrapperCycle(T) ==
  /\ HasOwnContainer(T)
  /\ \E n \in Reach({type_name(T)}) : WrapperChainLoops(n, {})

RECURSIVE ShapeFragment(_)
\* The fragment of a shape, registry aside.
ShapeFragment(f) ==
  CASE f.k \in {"Str", "Char"} -> Inline(Ty("string"))
    [] f.k \in IntFormats -> Inline(Ty("integer"))
    [] f.k \in {"F32", "F64"} -> Inline(Ty("number"))
    [] f.k = "Bool" -> Inline(Ty("boolean"))
    [] f.k = "Unit" -> Inline(Ty("null"))
    [] f.k = "Option" -> ShapeFragment(f.inner)
    [] f.k = "Seq" ->
         Inline([ANY EXCEPT !.ty = "array",
                            !.items = <<ShapeFragment(f.inner)>>])
    [] f.k = "Map" ->
         Inline([ANY EXCEPT
                   !.ty = "object",
                   !.additional_properties = <<ShapeFragment(f.value)>>])
    [] f.k = "Tuple" ->
         Inline([ANY EXCEPT
                   !.ty = "array",
                   !.all_of = [i \in 1..Len(f.formats) |->
                                 ShapeFragment(f.formats[i])]])
    [] f.k = "TypeName" -> Reference(f.name)
    [] OTHER -> Inline(Ty("object"))

RECURSIVE RefNames(_)
\* The names a fragment refers to.
SchemaRefNames(schema) ==
  UNION ({RefNames(schema.properties[i][2]) :
            i \in 1..Len(schema.properties)}
         \cup {RefNames(schema.items[i]) : i \in 1..Len(schema.items)}
         \cup {RefNames(schema.additional_properties[i]) :
                 i \in 1..Len(schema.additional_properties)}
         \cup {RefNames(schema.all_of[i]) : i \in 1..Len(schema.all_of)}
         \cup {RefNames(schema.any_of[i]) : i \in 1..Len(schema.any_of)})

RefNames(ref) ==
  IF ref.r = "Reference" THEN {ref.name}
  ELSE LET schema == ref.schema
       IN  UNION ({RefNames(schema.properties[i][2]) :
                     i \in 1..Len(schema.properties)}
                  \cup {RefNames(schema.items[i]) :
                          i \in 1..Len(schema.items)}
                  \cup {RefNames(schema.additional_properties[i]) :
                          i \in 1..Len(schema.additional_properties)}
                  \cup {RefNames(schema.all_of[i]) :
                          i \in 1..Len(schema.all_of)}
                  \cup {RefNames(schema.any_of[i]) :
                          i \in 1..Len(schema.any_of)})

C7_AppendOnly ==
  [][\A n \in SchemaNames :
       poem_reg[n] /= <<>> => poem_reg'[n] = poem_reg[n]]_vars

C7_Witness ==
  /\ last.op = "register"
  /\ last.st = "ok"
  /\ ~last.again
  /\ registered = {"Pair", "Event"}
  /\ IsBound("Pair") /\ IsBound("Event") /\ IsBound("Leaf")

(***************************************************************************)
(* C5.  When T does not trace, register returns and binds the bare object  *)
(* fragment under T's bare type name, the name name() returns and          *)
(* schema_ref() refers to.                                                 *)
(***************************************************************************)
C5_TraceFailureFallback ==
  (last.op = "register" /\ last.w.base \in Untraceable)
    => /\ last.st = "ok"
       /\ poem_reg[type_name(last.w.base)] /= <<>>
       /\ Unstamped(poem_reg[type_name(last.w.base)][1]) =
            [ty |-> "object", properties |-> <<>>, items |-> <<>>,
             additional_properties |-> <<>>, all_of |-> <<>>,
             any_of |-> <<>>, nullable |-> FALSE, title |-> <<>>,
             rust_typename |-> <<>>]
       /\ name(last.w) = type_name(last.w.base)
       /\ schema_ref(Wrapper(last.w.base, 0)) =
            Reference(type_name(last.w.base))

C5_Witness ==
  /\ last.op = "register"
  /\ last.w.base = "Opaque"
  /\ last.st = "ok"
  /\ IsBound("Opaque")

(***************************************************************************)
(* C6.  A struct container becomes an object fragment whose properties     *)
(* are its fields, one each, in declaration order, each with the fragment  *)
(* of its shape; a string, a 32-bit integer and a boolean field become     *)
(* string, integer and boolean.                                            *)
(***************************************************************************)
C6_StructProperties ==
  outcome = "running"
    => /\ \A n \in ContainerNames :
            (Decl(n).k = "Struct" /\ IsBound(n))
              => LET schema == poem_reg[n][1]
                     fields == Decl(n).fields
                 IN  /\ schema.ty = "object"
                     /\ Len(schema.properties) = Len(fields)
                     /\ \A i \in 1..Len(fields) :
                          schema.properties[i] =
                            <<fields[i].name, ShapeFragment(fields[i].value)>>
                     /\ schema.items = <<>> /\ schema.all_of = <<>>
                     /\ schema.any_of = <<>>
                     /\ schema.additional_properties = <<>>
       /\ IsBound("Leaf")
            => poem_reg["Leaf"][1].properties =
                 <<<<"text", Inline(Ty("string"))>>,
                   <<"n", Inline(Ty("integer"))>>,
                   <<"flag", Inline(Ty("boolean"))>>>>

C6_Witness ==
  /\ outcome = "running"
  /\ last.op = "register"
  /\ last.w.base = "Pair"
  /\ IsBound("Leaf")
  /\ IsBound("Pair")

(***************************************************************************)
(* C8, as claimed.  Registering a wrapper W of a wrapper V of a named U    *)
(* binds V's name to a fragment that unwraps W alone: the converter does   *)
(* not go through V into U, so U's container is neither converted nor      *)
(* bound, and what is bound under V is not U's fragment.                   *)
(***************************************************************************)
C8_OneLevelOnly ==
  (/\ last.op = "register" /\ last.st = "ok"
   /\ IsWrapperOfNamed(last.w.base)
   /\ IsWrapperOfNamed(PayloadOf(last.w.base)))
    => LET V == PayloadOf(last.w.base)
           U == PayloadOf(V)
       IN  /\ name(last.w) = V
           /\ IsBound(V)
           /\ (IsBound(U) => Unstamped(poem_reg[V][1])
                               /= Unstamped(poem_reg[U][1]))

(***************************************************************************)
(* C8, amended.  Registering a wrapper W of a wrapper V of a named U       *)
(* resolves the name one level, to V, while the fragment bound under V has *)
(* every wrapper layer removed: the converter goes through V into U, binds *)
(* U, and binds under V the fragment of U's own container.                 *)
(***************************************************************************)
C8_NameOneLevelFragmentAllLevels ==
  (/\ last.op = "register" /\ last.st = "ok"
   /\ IsWrapperOfNamed(last.w.base)
   /\ IsWrapperOfNamed(PayloadOf(last.w.base)))
    => LET V == PayloadOf(last.w.base)
           U == PayloadOf(V)
       IN  /\ name(last.w) = V
           /\ name(last.w) /= U
           /\ IsBound(V) /\ IsBound(U)
           /\ Unstamped(poem_reg[V][1]) = Unstamped(poem_reg[U][1])
           /\ Decl(U).k = "Struct"
                => /\ poem_reg[V][1].ty = "object"
                   /\ Len(poem_reg[V][1].properties) = Len(Decl(U).fields)

C8_Witness ==
  /\ last.op = "register"
  /\ last.st = "ok"
  /\ last.w.base = "W2"
  /\ IsBound("W1")
  /\ IsBound("Leaf")
  /\ ~IsBound("W2")

(***************************************************************************)
(* C9, as claimed.  Registering a type whose named-reference graph holds   *)
(* a cycle never returns.                                                  *)
(***************************************************************************)
C9_CycleNeverReturns ==
  (last.op = "register" /\ HasCycle(last.w.base)) => last.st = "overflow"

(***************************************************************************)
(* C9, amended.  The recursion is unbounded exactly through the            *)
(* NewTypeStruct arm: registration recurses without end only if a cycle of *)
(* single-field wrappers is reachable from the type, and with one          *)
(* reachable it never returns normally; a cycle that passes through a      *)
(* named reference held in a field, element or variant returns, that       *)
(* reference staying a Reference, because create_schema binds the name     *)
(* before the container is converted.                                      *)
(***************************************************************************)
C9_OnlyWrapperCyclesDiverge ==
  last.op = "register"
    => /\ last.st = "overflow" => HasWrapperCycle(last.w.base)
       /\ HasWrapperCycle(last.w.base) => last.st /= "ok"
       /\ (HasCycle(last.w.base) /\ ~HasWrapperCycle(last.w.base)
           /\ ~last.again /\ last.st /= "panic")
            => /\ last.st = "ok"
               /\ IsBound(name(last.w))

C9_Witness ==
  /\ last.op = "register"
  /\ last.w.base = "Node"
  /\ last.st = "ok"
  /\ IsBound("Node")
  /\ "Node" \in SchemaRefNames(poem_reg["Node"][1])

(***************************************************************************)
(* C10.  No dangling references: after register has returned for a type    *)
(* that traces, the name schema_ref refers to is bound, and so is every    *)
(* name a bound fragment refers to.                                        *)
(***************************************************************************)
C10_NoDanglingReference ==
  (last.op = "register" /\ last.st = "ok" /\ last.w.base \notin Untraceable)
    => /\ IsBound(schema_ref(Wrapper(last.w.base, 0)).name)
       /\ \A n \in SchemaNames :
            IsBound(n)
              => \A m \in SchemaRefNames(poem_reg[n][1]) :
                   m \in SchemaNames /\ IsBound(m)

(***************************************************************************)
(* C2, as claimed.  For a single-field wrapper W of a named type T, the    *)
(* name and the schema reference of Foreign<W> are those of Foreign<T>,    *)
(* whatever T is.                                                          *)
(***************************************************************************)
C2_WrapperSameAsPayload ==
  (last.op \in {"name", "schema_ref"} /\ IsWrapperOfNamed(last.w.base))
    => LET payload == Wrapper(PayloadOf(last.w.base), last.w.opt)
       IN  last.result =
             IF last.op = "name" THEN name(payload) ELSE schema_ref(payload)

(***************************************************************************)
(* C2, amended.  For a single-field wrapper W of a named type T, the name  *)
(* of Foreign<W> is T's bare name and its schema reference refers to that  *)
(* name; they are those of Foreign<T> exactly when T is not itself a       *)
(* single-field wrapper of a named type (the unwrapping is one level).     *)
(***************************************************************************)
C2_WrapperNamedAfterPayload ==
  (last.op \in {"name", "schema_ref"} /\ IsWrapperOfNamed(last.w.base))
    => LET T == PayloadOf(last.w.base)
           payload == Wrapper(T, last.w.opt)
       IN  /\ last.op = "name"
                => /\ last.result = type_name(T)
                   /\ (last.result = name(payload)) <=> ~IsWrapperOfNamed(T)
           /\ (last.op = "schema_ref" /\ last.w.opt = 0)
                => last.result = Reference(type_name(T))
           /\ last.op = "schema_ref"
                => /\ RefNames(last.result) = {type_name(T)}
                   /\ (last.result = schema_ref(payload))
                        <=> ~IsWrapperOfNamed(T)

C2_Witness ==
  /\ last.op = "schema_ref"
  /\ last.w = Wrapper("W1", 0)
  /\ last.result = Reference("Leaf")

(***************************************************************************)
(* C3.  The schema reference of Foreign<Option<T>> is an inline fragment   *)
(* with nullable set: {title: n, nullable, allOf: [Reference n]} when that *)
(* of Foreign<T> is a Reference to n, the same fragment with nullable set  *)
(* when it is inline; its title is the name of Foreign<T>, and the name of *)
(* Foreign<Option<T>> is the name of Foreign<T>.                           *)
(***************************************************************************)
C3_OptionIsNullable ==
  /\ (last.op = "schema_ref" /\ last.w.opt > 0)
       => LET base == schema_ref(Unwrapped(last.w))
          IN  /\ last.result.r = "Inline"
              /\ last.result.schema.nullable
              /\ last.result.schema.title = <<name(Wrapper(last.w.base, 0))>>
              /\ base.r = "Reference"
                   => last.result.schema =
                        [ty |-> "", properties |-> <<>>, items |-> <<>>,
                         additional_properties |-> <<>>,
                         all_of |-> <<Reference(base.name)>>,
                         any_of |-> <<>>, nullable |-> TRUE,
                         title |-> <<base.name>>, rust_typename |-> <<>>]
              /\ base.r = "Inline"
                   => \A field \in DOMAIN base.schema \ {"nullable"} :
                        last.result.schema[field] = base.schema[field]
  /\ (last.op = "name" /\ last.w.opt > 0)
       => last.result = name(Wrapper(last.w.base, 0))

C3_Witness ==
  /\ last.op = "schema_ref"
  /\ last.w = Wrapper("Leaf", 1)
  /\ last.result.schema.nullable
  /\ last.result.schema.title = <<"Leaf">>
  /\ last.result.schema.all_of = <<Reference("Leaf")>>

(***************************************************************************)
(* C4.  to_json of Foreign<Option<T>> holding Some(v) is to_json of        *)
(* Foreign<T> holding v, and holding None it is JSON null.                 *)
(***************************************************************************)
C4_OptionToJson ==
  (last.op = "to_json" /\ last.optional)
    => /\ last.held /= <<>> => last.result = Foreign_to_json(last.held[1])
       /\ last.held = <<>> => last.result = <<JNull>>

====
